---- MODULE Spec2Model ----
(***************************************************************************)
(* A model of AquariWM's tiling layout tree (src/layout/implementations.rs *)
(* and src/layout/implementations/node_changes.rs): the group node with    *)
(* its pending mutation log, the logical (reversed) indexing, and the      *)
(* commit pass apply_changes.                                              *)
(*                                                                         *)
(* Indices are 0-based as in the source; the element at storage index i of *)
(* a Rust sequence s is s[i + 1] here.                                     *)
(***************************************************************************)
EXTENDS Integers, Sequences, FiniteSets, TLC

VARIABLES
    root,             \* the root GroupNode of the TilingLayout
    overflow_checks,  \* TRUE: integer overflow panics (debug build); FALSE: it wraps (release build)
    failures,         \* how many times resize_window has failed so far
    op,               \* the last operation performed, its inputs and its result
    deref_frames,     \* the stack frames of Deref::deref of the TilingLayout now active
    wm                \* the X11 adapter: the position of `run`, its connection and its result

vars == <<root, overflow_checks, failures, op, deref_frames, wm>>

\* ---------------------------------------------------------------- bounds

\* The largest number of nodes of the tree, the root not counted: where the
\* tree is only edited and read, and where it is also resized and committed.
MaxNodes == 3
MaxSizedNodes == 2
\* The number of frames of Deref::deref the stack has room for.
MaxFrames == 3
\* The X windows of clients are 1..MaxWindows.
MaxWindows == 2
\* The largest number of events the event loop reads in one run.
MaxEvents == 2
\* The largest number of resize_window failures in one run.
MaxFailures == 1
\* The deepest nesting of groups (the root is at depth 1).
MaxDepth == 2
\* Widths and heights given to new / set_width / set_height are 0..MaxSize.
MaxSize == 2
\* rotate_by is called with -MaxRot..MaxRot.
MaxRot == 4

Sizes == 0..MaxSize
Rotations == (0 - MaxRot)..MaxRot

\* TLC's integers are 32-bit signed, so 2^32 and 2^64 are not representable. A
\* wrapped u32 / usize value only ever appears as a divisor or in a comparison
\* with values far below 2^30, for which 2^30 gives the same result.
U32Modulus == 2^30
UsizeModulus == 2^30

\* ---------------------------------------------------------------- Option

None == <<>>
Some(x) == <<x>>
is_some(o) == o # None
unwrap(o) == o[1]

\* ---------------------------------------------------------------- Orientation, Axis

Orientations == {"LeftToRight", "TopToBottom", "RightToLeft", "BottomToTop"}

\* Orientation::reversed
reversed(o) == o \in {"RightToLeft", "BottomToTop"}

\* Orientation::axis
axis(o) == IF o \in {"LeftToRight", "RightToLeft"} THEN "Horizontal" ELSE "Vertical"

\* Axis::flipped
flipped(a) == IF a = "Horizontal" THEN "Vertical" ELSE "Horizontal"

\* ---------------------------------------------------------------- Node constructors

\* WindowNode::new. `uncommitted` is a history field, not a field of the
\* source: TRUE from the node's creation until its parent group next takes its
\* mutation log in apply_changes.
WindowNode_new(window, width, height) ==
    [kind |-> "Window", window |-> window, width |-> width, height |-> height,
     uncommitted |-> TRUE]

\* GroupNode::new
GroupNode_new(o, width, height) ==
    [kind |-> "Group",
     orientation |-> o,
     nodes |-> <<>>,
     total_node_primary |-> 0,
     additions |-> <<>>,
     total_removed_primary |-> 0,
     new_orientation |-> None,
     new_width |-> None,
     new_height |-> None,
     width |-> width,
     height |-> height,
     uncommitted |-> TRUE]

\* Node::new_window
new_window(window, width, height) == WindowNode_new(window, width, height)

\* Node::new_group
new_group(o, width, height) == GroupNode_new(o, width, height)

\* TilingLayout::new
TilingLayout_new(o, width, height) == GroupNode_new(o, width, height)

\* ---------------------------------------------------------------- Node

\* Node::width / Node::height
node_width(node) == node.width
node_height(node) == node.height

\* Node::set_width / Node::set_height: both variants store the value directly.
node_set_width(node, width) == [node EXCEPT !.width = width]
node_set_height(node, height) == [node EXCEPT !.height = height]

\* Node::primary
node_primary(node, a) == IF a = "Horizontal" THEN node_width(node) ELSE node_height(node)

\* Node::secondary
node_secondary(node, a) == IF a = "Horizontal" THEN node_height(node) ELSE node_width(node)

\* A set_primary that stores nothing.
node_set_primary_dropped(node, primary, a) == node

\* Node::set_primary
node_set_primary(node, primary, a) ==
    IF a = "Horizontal" THEN node_set_width(node, primary) ELSE node_set_height(node, primary)

\* Node::set_secondary
node_set_secondary(node, secondary, a) ==
    IF a = "Horizontal" THEN node_set_height(node, secondary) ELSE node_set_width(node, secondary)

\* ---------------------------------------------------------------- integer arithmetic

\* usize subtraction a - b: an underflow panics when overflow checks are on and
\* wraps otherwise.
usize_sub(a, b, checks) ==
    IF a >= b THEN [panic |-> FALSE, value |-> a - b]
    ELSE IF checks THEN [panic |-> TRUE, value |-> 0]
    ELSE [panic |-> FALSE, value |-> UsizeModulus - (b - a)]

\* u32 subtraction a - b, likewise.
u32_sub(a, b, checks) ==
    IF a >= b THEN [panic |-> FALSE, value |-> a - b]
    ELSE IF checks THEN [panic |-> TRUE, value |-> 0]
    ELSE [panic |-> FALSE, value |-> U32Modulus - (b - a)]

\* u32 multiplication and addition, likewise.
u32_mul(a, b, checks) ==
    IF a * b < U32Modulus THEN [panic |-> FALSE, value |-> a * b]
    ELSE IF checks THEN [panic |-> TRUE, value |-> 0]
    ELSE [panic |-> FALSE, value |-> (a * b) % U32Modulus]

u32_add(a, b, checks) ==
    IF a + b < U32Modulus THEN [panic |-> FALSE, value |-> a + b]
    ELSE IF checks THEN [panic |-> TRUE, value |-> 0]
    ELSE [panic |-> FALSE, value |-> (a + b) % U32Modulus]

\* ---------------------------------------------------------------- sequences

\* Vec::insert(index, x), index <= len
seq_insert(s, index, x) == SubSeq(s, 1, index) \o <<x>> \o SubSeq(s, index + 1, Len(s))

\* Vec::remove(index), index < len
seq_remove(s, index) == SubSeq(s, 1, index) \o SubSeq(s, index + 2, Len(s))

\* slice::partition_point(|&i| i < index): the index of the first element that
\* does not satisfy the predicate.
partition_point(s, index) ==
    IF \E k \in 1..Len(s) : ~(s[k] < index)
    THEN (CHOOSE k \in 1..Len(s) : ~(s[k] < index) /\ \A j \in 1..(k - 1) : s[j] < index) - 1
    ELSE Len(s)

\* slice::binary_search(&index) on a sorted slice: Ok(position) when found,
\* Err(insertion point) otherwise.
binary_search(s, index) ==
    IF \E k \in 1..Len(s) : s[k] = index
    THEN [found |-> TRUE, pos |-> (CHOOSE k \in 1..Len(s) : s[k] = index) - 1]
    ELSE [found |-> FALSE, pos |-> Cardinality({k \in 1..Len(s) : s[k] < index})]

\* ---------------------------------------------------------------- GroupNode: queries

\* GroupNode::orientation: the pending orientation if there is one.
orientation(g) == IF is_some(g.new_orientation) THEN unwrap(g.new_orientation) ELSE g.orientation

\* GroupNode::len
len(g) == Len(g.nodes)

\* GroupNode::is_empty
is_empty(g) == Len(g.nodes) = 0

\* The result of a query: Panic, or Ok with the value returned.
Panicked == [outcome |-> "Panic", ret |-> None]
Returned(v) == [outcome |-> "Ok", ret |-> v]

\* Index<usize> for GroupNode: self[index]; an index outside nodes panics.
index(g, i, checks) ==
    IF ~reversed(orientation(g))
    THEN IF i < Len(g.nodes) THEN Returned(g.nodes[i + 1]) ELSE Panicked
    ELSE LET last_ == usize_sub(Len(g.nodes), 1, checks) IN
         IF last_.panic THEN Panicked
         ELSE LET idx == usize_sub(last_.value, i, checks) IN
              IF idx.panic THEN Panicked
              ELSE IF idx.value < Len(g.nodes) THEN Returned(g.nodes[idx.value + 1])
              ELSE Panicked

\* get that maps the index through the committed orientation.
get_committed(g, i, checks) ==
    IF ~reversed(g.orientation)
    THEN IF i < Len(g.nodes) THEN Returned(Some(g.nodes[i + 1])) ELSE Returned(None)
    ELSE LET last_ == usize_sub(Len(g.nodes), 1, checks) IN
         IF last_.panic THEN Panicked
         ELSE LET idx == usize_sub(last_.value, i, checks) IN
              IF idx.panic THEN Panicked
              ELSE IF idx.value < Len(g.nodes) THEN Returned(Some(g.nodes[idx.value + 1]))
              ELSE Returned(None)

\* GroupNode::get
get(g, i, checks) ==
    IF ~reversed(orientation(g))
    THEN IF i < Len(g.nodes) THEN Returned(Some(g.nodes[i + 1])) ELSE Returned(None)
    ELSE LET last_ == usize_sub(Len(g.nodes), 1, checks) IN
         IF last_.panic THEN Panicked
         ELSE LET idx == usize_sub(last_.value, i, checks) IN
              IF idx.panic THEN Panicked
              ELSE IF idx.value < Len(g.nodes) THEN Returned(Some(g.nodes[idx.value + 1]))
              ELSE Returned(None)

\* GroupNode::get_mut
get_mut(g, i, checks) ==
    IF ~reversed(orientation(g))
    THEN IF i < Len(g.nodes) THEN Returned(Some(g.nodes[i + 1])) ELSE Returned(None)
    ELSE LET last_ == usize_sub(Len(g.nodes), 1, checks) IN
         IF last_.panic THEN Panicked
         ELSE LET idx == usize_sub(last_.value, i, checks) IN
              IF idx.panic THEN Panicked
              ELSE IF idx.value < Len(g.nodes) THEN Returned(Some(g.nodes[idx.value + 1]))
              ELSE Returned(None)

\* GroupNode::first
first(g, checks) ==
    IF len(g) = 0 THEN Returned(None)
    ELSE LET r == index(g, 0, checks) IN
         IF r.outcome = "Panic" THEN Panicked ELSE Returned(Some(r.ret))

\* GroupNode::last
last(g, checks) ==
    IF len(g) = 0 THEN Returned(None)
    ELSE LET r == index(g, len(g) - 1, checks) IN
         IF r.outcome = "Panic" THEN Panicked ELSE Returned(Some(r.ret))

\* GroupNode::primary / GroupNode::secondary
group_primary(g) == IF axis(orientation(g)) = "Horizontal" THEN g.width ELSE g.height
group_secondary(g) == IF axis(orientation(g)) = "Horizontal" THEN g.height ELSE g.width

\* ---------------------------------------------------------------- GroupNode: pending fields

\* GroupNode::set_orientation
set_orientation(g, new) == [g EXCEPT !.new_orientation = Some(new)]

\* set_width that stores the width at once, as Node::set_width does.
set_width_at_once(g, width) == [g EXCEPT !.width = width]

\* GroupNode::set_width / GroupNode::set_height
set_width(g, width) == [g EXCEPT !.new_width = Some(width)]
set_height(g, height) == [g EXCEPT !.new_height = Some(height)]

\* The position of an orientation in rotate_by's first match, and the
\* orientation of a position in its second.
orientation_number(o) ==
    CASE o = "LeftToRight" -> 0
      [] o = "TopToBottom" -> 1
      [] o = "RightToLeft" -> 2
      [] o = "BottomToTop" -> 3

\* i32::div_euclid(4): the quotient, rounded towards minus infinity.
div_euclid_4(n) == n \div 4

\* GroupNode::rotate_by: any quotient outside 0..3 reaches unreachable!().
rotate_by(g, rotations) ==
    LET current == orientation_number(g.orientation)
        q == div_euclid_4(current + rotations)
    IN  CASE q = 0 -> [outcome |-> "Ok", group |-> set_orientation(g, "LeftToRight")]
          [] q = 1 -> [outcome |-> "Ok", group |-> set_orientation(g, "TopToBottom")]
          [] q = 2 -> [outcome |-> "Ok", group |-> set_orientation(g, "RightToLeft")]
          [] q = 3 -> [outcome |-> "Ok", group |-> set_orientation(g, "BottomToTop")]
          [] OTHER -> [outcome |-> "Panic", group |-> g]

\* ---------------------------------------------------------------- GroupNode: mutation log

\* GroupNode::track_insert
track_insert(g, i) ==
    LET insertion_point == partition_point(g.additions, i)
        inserted == seq_insert(g.additions, insertion_point, i)
    IN  [g EXCEPT !.additions =
            [k \in 1..Len(inserted) |->
                IF k - 1 >= insertion_point + 1 THEN inserted[k] + 1 ELSE inserted[k]]]

\* GroupNode::track_push
track_push(g) == [g EXCEPT !.additions = Append(@, len(g) - 1)]

\* track_remove that forgets to move the following additions back.
track_remove_no_shift(g, i) ==
    LET found == binary_search(g.additions, i)
    IN  [g EXCEPT !.additions =
            IF found.found THEN seq_remove(g.additions, found.pos) ELSE g.additions]

\* GroupNode::track_remove
track_remove(g, i) ==
    LET found == binary_search(g.additions, i)
        kept == IF found.found THEN seq_remove(g.additions, found.pos) ELSE g.additions
    IN  [g EXCEPT !.additions =
            [k \in 1..Len(kept) |-> IF k - 1 >= found.pos THEN kept[k] - 1 ELSE kept[k]]]

\* ---------------------------------------------------------------- GroupNode: structural edits

\* GroupNode::remove, index < len: the group afterwards and the node returned.
remove(g, i) ==
    LET node == g.nodes[i + 1]
        g1 == track_remove([g EXCEPT !.nodes = seq_remove(@, i)], i)
    IN  [group |-> [g1 EXCEPT !.total_removed_primary = @ + node_primary(node, axis(g.orientation))],
         node |-> node]

\* GroupNode::push_node
push_node(g, node) ==
    IF ~reversed(g.orientation)
    THEN track_push([g EXCEPT !.nodes = Append(@, node)])
    ELSE track_insert([g EXCEPT !.nodes = seq_insert(@, 0, node)], 0)

\* GroupNode::push_window
push_window(g, window) == push_node(g, new_window(window, 0, 0))

\* GroupNode::insert_window, index <= len
insert_window(g, i, window) ==
    track_insert([g EXCEPT !.nodes = seq_insert(@, i, new_window(window, 0, 0))], i)

\* GroupNode::push_group
push_group(g, o) == push_node(g, new_group(o, 0, 0))

\* GroupNode::insert_group, index <= len
insert_group(g, i, o) ==
    track_insert([g EXCEPT !.nodes = seq_insert(@, i, new_group(o, 0, 0))], i)

\* ---------------------------------------------------------------- GroupNode: commit

\* changes_made that reports changes whenever the group has children.
changes_made_with_children(g) == g.nodes # <<>>

\* changes_made that also reports a child window no commit has given an
\* extent, so that the next commit resizes it.
changes_made_or_unplaced(g) ==
    \/ g.additions # <<>>
    \/ g.total_removed_primary # 0
    \/ is_some(g.new_orientation)
    \/ is_some(g.new_width)
    \/ is_some(g.new_height)
    \/ \E k \in 1..Len(g.nodes) :
          g.nodes[k].kind = "Window" /\ g.nodes[k].width = 0 /\ g.nodes[k].height = 0

\* GroupNode::changes_made
changes_made(g) ==
    \/ g.additions # <<>>
    \/ g.total_removed_primary # 0
    \/ is_some(g.new_orientation)
    \/ is_some(g.new_width)
    \/ is_some(g.new_height)

\* The history field of every child is reset when the group takes its log.
log_taken(nodes) == [k \in 1..Len(nodes) |-> [nodes[k] EXCEPT !.uncommitted = FALSE]]

RECURSIVE apply_changes(_, _, _)
RECURSIVE apply_unchanged(_, _, _, _, _)
RECURSIVE resize_nodes(_, _, _, _, _, _)

\* set_node_dimensions that drops the result of resize_window.
set_node_dimensions_ignoring(node, primary, secondary, new_axis, fail, checks) ==
    LET sized == node_set_secondary(node_set_primary(node, primary, new_axis), secondary, new_axis)
    IN  IF sized.kind = "Group"
        THEN LET r == apply_changes(sized, fail, checks)
             IN  [node |-> r.group, calls |-> r.calls, result |-> r.result]
        ELSE [node |-> sized,
              calls |-> << <<sized.window, primary, secondary>> >>,
              result |-> "Ok"]

\* The closure set_node_dimensions of apply_changes: the node afterwards, the
\* calls of resize_window made and the result. resize_window fails on the
\* window `fail`.
set_node_dimensions(node, primary, secondary, new_axis, fail, checks) ==
    LET sized == node_set_secondary(node_set_primary(node, primary, new_axis), secondary, new_axis)
    IN  IF sized.kind = "Group"
        THEN LET r == apply_changes(sized, fail, checks)
             IN  [node |-> r.group, calls |-> r.calls, result |-> r.result]
        ELSE [node |-> sized,
              calls |-> << <<sized.window, primary, secondary>> >>,
              result |-> IF sized.window = fail THEN "Err" ELSE "Ok"]

\* The path of a group without changes that returns at once, its child groups
\* not visited.
apply_unchanged_shallow(g, i, calls, fail, checks) ==
    [group |-> g, calls |-> calls, result |-> "Ok"]

\* apply_changes, the path of a group without changes: the child groups from
\* storage index i on are committed in order, up to the first failure.
apply_unchanged(g, i, calls, fail, checks) ==
    IF i = Len(g.nodes) THEN [group |-> g, calls |-> calls, result |-> "Ok"]
    ELSE IF g.nodes[i + 1].kind # "Group" THEN apply_unchanged(g, i + 1, calls, fail, checks)
    ELSE LET r == apply_changes(g.nodes[i + 1], fail, checks)
             g1 == [g EXCEPT !.nodes[i + 1] = r.group]
         IN  IF r.result # "Ok"
             THEN [group |-> g1, calls |-> calls \o r.calls, result |-> r.result]
             ELSE apply_unchanged(g1, i + 1, calls \o r.calls, fail, checks)

\* apply_changes, the loop "Resize all the nodes appropriately" from storage
\* index i on. c holds the values computed before the loop; additions are the
\* additions not yet met; total is new_total_node_primary.
resize_nodes(g, i, additions, total, calls, c) ==
    IF i = Len(g.nodes)
    THEN [group |-> [g EXCEPT !.total_node_primary = total], calls |-> calls, result |-> "Ok"]
    ELSE
    LET node == g.nodes[i + 1] IN
    IF additions # <<>> /\ Head(additions) = i
    THEN LET r == set_node_dimensions(node, c.new_primary, c.group_secondary, c.new_axis,
                                      c.fail, c.checks)
             g1 == [g EXCEPT !.nodes[i + 1] = r.node]
         IN  IF r.result # "Ok"
             THEN [group |-> g1, calls |-> calls \o r.calls, result |-> r.result]
             ELSE resize_nodes(g1, i + 1, Tail(additions), total, calls \o r.calls, c)
    ELSE LET old_primary == node_primary(node, c.old_axis)
             product == u32_mul(old_primary, c.rescaling_primary, c.checks)
         IN  IF product.panic \/ c.old_total_node_primary = 0
             THEN [group |-> g, calls |-> calls, result |-> "Panic"]
             ELSE
             LET rescaled_primary == product.value \div c.old_total_node_primary
                 r == set_node_dimensions(node, rescaled_primary, c.group_secondary, c.new_axis,
                                          c.fail, c.checks)
                 g1 == [g EXCEPT !.nodes[i + 1] = r.node]
                 sum == u32_add(total, rescaled_primary, c.checks)
             IN  IF r.result # "Ok"
                 THEN [group |-> g1, calls |-> calls \o r.calls, result |-> r.result]
                 ELSE IF sum.panic
                 THEN [group |-> g1, calls |-> calls \o r.calls, result |-> "Panic"]
                 ELSE resize_nodes(g1, i + 1, additions, sum.value, calls \o r.calls, c)

\* GroupNode::apply_changes: the group afterwards, the calls of resize_window
\* made (in order, the failing one included) and the result: Ok, Err (a
\* resize_window failure) or Panic.
apply_changes(g, fail, checks) ==
    IF ~changes_made(g) THEN apply_unchanged(g, 0, <<>>, fail, checks)
    ELSE
    LET additions == g.additions
        total_removed_primary == g.total_removed_primary
        new_orientation == g.new_orientation
        new_width == g.new_width
        new_height == g.new_height
        old_axis == axis(g.orientation)
        g1 == [g EXCEPT !.additions = <<>>,
                        !.total_removed_primary = 0,
                        !.new_orientation = None,
                        !.new_width = None,
                        !.new_height = None,
                        !.orientation = IF is_some(new_orientation) THEN unwrap(new_orientation) ELSE @,
                        !.width = IF is_some(new_width) THEN unwrap(new_width) ELSE @,
                        !.height = IF is_some(new_height) THEN unwrap(new_height) ELSE @,
                        !.nodes = log_taken(@)]
        new_axis == axis(g1.orientation)
        old_total_node_primary == u32_sub(g.total_node_primary, total_removed_primary, checks)
    IN  IF old_total_node_primary.panic \/ Len(g1.nodes) = 0
        THEN [group |-> g1, calls |-> <<>>, result |-> "Panic"]
        ELSE
        LET new_primary == group_primary(g1) \div Len(g1.nodes)
            new_total_node_primary == new_primary * Len(additions)
            rescaling_primary == group_primary(g1) - new_total_node_primary
        IN  resize_nodes(g1, 0, additions, new_total_node_primary, <<>>,
                [new_primary |-> new_primary,
                 group_secondary |-> group_secondary(g1),
                 rescaling_primary |-> rescaling_primary,
                 old_total_node_primary |-> old_total_node_primary.value,
                 old_axis |-> old_axis,
                 new_axis |-> new_axis,
                 fail |-> fail,
                 checks |-> checks])

\* ---------------------------------------------------------------- the tree

\* A group of the tree is named by its path: the storage indices of the child
\* groups leading to it from the root.
RECURSIVE GroupAt(_, _)
GroupAt(g, path) ==
    IF path = <<>> THEN g ELSE GroupAt(g.nodes[Head(path) + 1], Tail(path))

\* The tree with the group at `path` replaced by h.
RECURSIVE ReplaceAt(_, _, _)
ReplaceAt(g, path, h) ==
    IF path = <<>> THEN h
    ELSE [g EXCEPT !.nodes[Head(path) + 1] = ReplaceAt(@, Tail(path), h)]

\* The paths of all groups of the tree.
RECURSIVE Paths(_)
Paths(g) ==
    {<<>>} \cup UNION {{<<k - 1>> \o p : p \in Paths(g.nodes[k])} :
                        k \in {j \in 1..Len(g.nodes) : g.nodes[j].kind = "Group"}}

\* The number of nodes of the tree, the root not counted.
RECURSIVE NodeCount(_)
NodeCount(g) ==
    IF Len(g.nodes) = 0 THEN 0
    ELSE LET below == [k \in 1..Len(g.nodes) |->
                          IF g.nodes[k].kind = "Group" THEN NodeCount(g.nodes[k]) ELSE 0]
             sum[k \in 0..Len(g.nodes)] == IF k = 0 THEN 0 ELSE sum[k - 1] + 1 + below[k]
         IN  sum[Len(g.nodes)]

\* The window handles of the tree.
RECURSIVE Handles(_)
Handles(g) ==
    UNION {IF g.nodes[k].kind = "Window" THEN {g.nodes[k].window} ELSE Handles(g.nodes[k]) :
           k \in 1..Len(g.nodes)}

\* ---------------------------------------------------------------- the X11 adapter

\* The root window of the screen.
RootWindow == 0
Windows == 1..MaxWindows

\* A request to the X server: its name, its window and its argument.
Request(req, window, arg) == [req |-> req, window |-> window, arg |-> arg]

\* The attributes of a window a ConfigureRequest can name, in the order of the
\* protocol's value mask; the values are 0 or 1.
ConfigFields == <<"X", "Width", "StackMode">>
FieldSet == {ConfigFields[k] : k \in 1..Len(ConfigFields)}

\* The events wait_for_event returns: the four the loop names and one other.
\* A ConfigureRequest carries a mask of the attributes the client asks to
\* change and a value for every attribute.
NoValues == [f \in FieldSet |-> 0]
Event(type, window, place, mask, values) ==
    [type |-> type, window |-> window, place |-> place, mask |-> mask, values |-> values]
Events ==
    {Event("MapRequest", w, "", {}, NoValues) : w \in Windows}
    \cup UNION {{Event("ConfigureRequest", w, "", mask, values) :
                    w \in Windows,
                    values \in {v \in [FieldSet -> {0, 1}] : \A f \in FieldSet \ mask : v[f] = 0}} :
                mask \in SUBSET FieldSet}
    \cup {Event("CirculateRequest", w, place, {}, NoValues) : w \in Windows, place \in {"OnTop", "OnBottom"}}
    \cup {Event("UnmapNotify", w, "", {}, NoValues) : w \in Windows}
    \cup {Event("Other", w, "", {}, NoValues) : w \in Windows}

\* util::value_list: the values of the attributes in the request's mask, in
\* the order of the mask.
RECURSIVE value_list_from(_, _)
value_list_from(request, k) ==
    IF k > Len(ConfigFields) THEN <<>>
    ELSE (IF ConfigFields[k] \in request.mask
          THEN << <<ConfigFields[k], request.values[ConfigFields[k]]>> >>
          ELSE <<>>) \o value_list_from(request, k + 1)
value_list(request) == value_list_from(request, 1)

\* util::circulate_window: one CirculateWindow request for the window.
circulate_window(window, direction) == <<Request("CirculateWindow", window, direction)>>

\* The translation of a Place that raises whatever the place.
circulate_raising(place) == "RaiseLowest"

\* The match on request.place() in the dispatch of a CirculateRequest.
circulate_direction(place) == IF place = "OnTop" THEN "RaiseLowest" ELSE "LowerHighest"

\* The match on the event in the loop: the requests send_request queues.
dispatch(event) ==
    IF event.type = "MapRequest" THEN <<Request("MapWindow", event.window, <<>>)>>
    ELSE IF event.type = "ConfigureRequest"
    THEN <<Request("ConfigureWindow", event.window, value_list(event))>>
    ELSE IF event.type = "CirculateRequest"
    THEN circulate_window(event.window, circulate_direction(event.place))
    ELSE <<>>

\* The operator `?`: a failure returns from `run` with the error, a success
\* goes on at `next`.
try(outcome, next) ==
    IF outcome = "Ok" THEN [pc |-> next, result |-> None]
    ELSE [pc |-> "returned", result |-> Some(outcome)]

\* A match on check_request that goes on whatever the reply.
check_request_unchecked(reply, testing) ==
    [pc |-> IF testing THEN "terminal" ELSE "flush", result |-> None]

\* The match on connection.check_request(cookie): the registration failed or
\* not; then `if testing`.
check_request(reply, testing) ==
    IF reply = "Ok" THEN [pc |-> IF testing THEN "terminal" ELSE "flush", result |-> None]
    ELSE [pc |-> "returned", result |-> Some(reply)]

\* The statement a new iteration of the loop begins with, were the flush left
\* before the loop.
loop_head_waiting == "wait"

\* The statement a new iteration of the loop begins with: the flush.
loop_head == "flush"

\* The adapter before `run` is called. `queue` holds the requests the
\* connection has not yet written to the server, `sent` those it has. History,
\* not state of the source: `failed` is the call that failed, `iterations` the
\* number of iterations of the loop begun, `events` the number of events read.
x11_idle ==
    [pc |-> "idle", testing |-> FALSE, queue |-> <<>>, sent |-> <<>>, event |-> None,
     result |-> None, failed |-> "", registered |-> "", iterations |-> 0, events |-> 0]

\* ---------------------------------------------------------------- operations

\* The handle of the next window to appear: handles are opaque and distinct,
\* so the least handle not in the tree stands for any new one.
FreshWindow(g) ==
    CHOOSE w \in 1..(Cardinality(Handles(g)) + 1) :
        /\ w \notin Handles(g)
        /\ \A v \in 1..(w - 1) : v \in Handles(g)

\* The record of an operation `name` on the group at `path`; the fields an
\* operation does not use keep these values.
Op(name, path) ==
    [name |-> name, path |-> path, index |-> 0, window |-> 0, orient |-> "",
     rotations |-> 0, size |-> 0, fail |-> 0, dirty |-> FALSE,
     outcome |-> "Ok", ret |-> None, calls |-> <<>>]

\* The program is between two operations: the last one returned (a panic ends
\* the program, and so does a call that never returns).
Running == op.outcome \in {"Ok", "Err"}

Init ==
    /\ \E o \in Orientations : root = TilingLayout_new(o, MaxSize, MaxSize - 1)
    /\ overflow_checks \in BOOLEAN
    /\ failures = 0
    /\ op = Op("new", <<>>)
    /\ deref_frames = 0
    /\ wm = x11_idle

RotateBy(paths, rotation_args) ==
    /\ Running
    /\ \E path \in paths, rotations \in rotation_args :
          LET r == rotate_by(GroupAt(root, path), rotations) IN
          /\ root' = ReplaceAt(root, path, r.group)
          /\ op' = [Op("rotate_by", path) EXCEPT !.rotations = rotations, !.outcome = r.outcome]
    /\ UNCHANGED <<overflow_checks, failures, deref_frames, wm>>

SetOrientation(paths) ==
    /\ Running
    /\ \E path \in paths, o \in Orientations :
          /\ root' = ReplaceAt(root, path, set_orientation(GroupAt(root, path), o))
          /\ op' = [Op("set_orientation", path) EXCEPT !.orient = o]
    /\ UNCHANGED <<overflow_checks, failures, deref_frames, wm>>

SetWidth(paths, sizes) ==
    /\ Running
    /\ \E path \in paths, width \in sizes :
          /\ root' = ReplaceAt(root, path, set_width(GroupAt(root, path), width))
          /\ op' = [Op("set_width", path) EXCEPT !.size = width]
    /\ UNCHANGED <<overflow_checks, failures, deref_frames, wm>>

SetHeight(paths, sizes) ==
    /\ Running
    /\ \E path \in paths, height \in sizes :
          /\ root' = ReplaceAt(root, path, set_height(GroupAt(root, path), height))
          /\ op' = [Op("set_height", path) EXCEPT !.size = height]
    /\ UNCHANGED <<overflow_checks, failures, deref_frames, wm>>

Remove(paths) ==
    /\ Running
    /\ \E path \in paths :
          \E i \in 0..(len(GroupAt(root, path)) - 1) :
             LET r == remove(GroupAt(root, path), i) IN
             /\ root' = ReplaceAt(root, path, r.group)
             /\ op' = [Op("remove", path) EXCEPT !.index = i, !.ret = Some(r.node)]
    /\ UNCHANGED <<overflow_checks, failures, deref_frames, wm>>

PushWindow(paths, limit) ==
    /\ Running
    /\ \E path \in paths, window \in {FreshWindow(root)} :
          /\ NodeCount(root) < limit
          /\ root' = ReplaceAt(root, path, push_window(GroupAt(root, path), window))
          /\ op' = [Op("push_window", path) EXCEPT !.window = window]
    /\ UNCHANGED <<overflow_checks, failures, deref_frames, wm>>

InsertWindow(paths, limit) ==
    /\ Running
    /\ \E path \in paths, window \in {FreshWindow(root)} :
          /\ NodeCount(root) < limit
          /\ \E i \in 0..len(GroupAt(root, path)) :
                /\ root' = ReplaceAt(root, path, insert_window(GroupAt(root, path), i, window))
                /\ op' = [Op("insert_window", path) EXCEPT !.index = i, !.window = window]
    /\ UNCHANGED <<overflow_checks, failures, deref_frames, wm>>

PushGroup(paths, limit, orientations) ==
    /\ Running
    /\ \E path \in paths, o \in orientations :
          /\ NodeCount(root) < limit
          /\ Len(path) + 2 <= MaxDepth
          /\ root' = ReplaceAt(root, path, push_group(GroupAt(root, path), o))
          /\ op' = [Op("push_group", path) EXCEPT !.orient = o]
    /\ UNCHANGED <<overflow_checks, failures, deref_frames, wm>>

InsertGroup(paths, limit, orientations) ==
    /\ Running
    /\ \E path \in paths, o \in orientations :
          /\ NodeCount(root) < limit
          /\ Len(path) + 2 <= MaxDepth
          /\ \E i \in 0..len(GroupAt(root, path)) :
                /\ root' = ReplaceAt(root, path, insert_group(GroupAt(root, path), i, o))
                /\ op' = [Op("insert_group", path) EXCEPT !.index = i, !.orient = o]
    /\ UNCHANGED <<overflow_checks, failures, deref_frames, wm>>

\* get is called with every index up to the largest length, so with indices
\* in and out of range.
Get(paths) ==
    /\ Running
    /\ \E path \in paths, i \in 0..MaxNodes :
          LET r == get(GroupAt(root, path), i, overflow_checks) IN
          op' = [Op("get", path) EXCEPT !.index = i, !.outcome = r.outcome, !.ret = r.ret]
    /\ UNCHANGED <<root, overflow_checks, failures, deref_frames, wm>>

GetMut(paths) ==
    /\ Running
    /\ \E path \in paths, i \in 0..MaxNodes :
          LET r == get_mut(GroupAt(root, path), i, overflow_checks) IN
          op' = [Op("get_mut", path) EXCEPT !.index = i, !.outcome = r.outcome, !.ret = r.ret]
    /\ UNCHANGED <<root, overflow_checks, failures, deref_frames, wm>>

\* Direct indexing, with an index in range (the caller's obligation).
Index(paths) ==
    /\ Running
    /\ \E path \in paths :
          \E i \in 0..(len(GroupAt(root, path)) - 1) :
             LET r == index(GroupAt(root, path), i, overflow_checks) IN
             op' = [Op("index", path) EXCEPT !.index = i, !.outcome = r.outcome,
                       !.ret = IF r.outcome = "Ok" THEN Some(r.ret) ELSE None]
    /\ UNCHANGED <<root, overflow_checks, failures, deref_frames, wm>>

First(paths) ==
    /\ Running
    /\ \E path \in paths :
          LET r == first(GroupAt(root, path), overflow_checks) IN
          op' = [Op("first", path) EXCEPT !.outcome = r.outcome, !.ret = r.ret]
    /\ UNCHANGED <<root, overflow_checks, failures, deref_frames, wm>>

Last(paths) ==
    /\ Running
    /\ \E path \in paths :
          LET r == last(GroupAt(root, path), overflow_checks) IN
          op' = [Op("last", path) EXCEPT !.outcome = r.outcome, !.ret = r.ret]
    /\ UNCHANGED <<root, overflow_checks, failures, deref_frames, wm>>

\* Whether the group or a group below it has changes to apply.
RECURSIVE changes_below(_)
changes_below(g) ==
    \/ changes_made(g)
    \/ \E k \in 1..Len(g.nodes) : g.nodes[k].kind = "Group" /\ changes_below(g.nodes[k])

\* apply_changes with a resize_window that fails on the window `fail`, one of
\* `failing` (0: on none). A resize_window that fails on a window it is never
\* called with is the one that fails on none, so `fail` is a window it is
\* called with.
ApplyChanges(paths, failing) ==
    /\ Running
    /\ \E path \in paths, fail \in {0} \cup failing :
          LET r == apply_changes(GroupAt(root, path), fail, overflow_checks) IN
          /\ fail # 0 => \E k \in 1..Len(r.calls) : r.calls[k][1] = fail
          /\ r.result = "Err" => failures < MaxFailures
          /\ root' = ReplaceAt(root, path, r.group)
          /\ failures' = IF r.result = "Err" THEN failures + 1 ELSE failures
          /\ op' = [Op("apply_changes", path) EXCEPT !.fail = fail, !.outcome = r.result,
                       !.calls = r.calls,
                       !.dirty = changes_below(GroupAt(root, path))]
    /\ UNCHANGED <<overflow_checks, deref_frames, wm>>

\* A use of the TilingLayout as a group (a method of GroupNode called on it, or
\* `&*layout`): Deref::deref (or DerefMut::deref_mut, of the same body) is
\* called to get the group.
DerefCall ==
    /\ Running
    /\ deref_frames = 0
    /\ deref_frames' = 1
    /\ op' = [Op("deref", <<>>) EXCEPT !.outcome = "Pending"]
    /\ UNCHANGED <<root, overflow_checks, failures, wm>>

\* The body of deref is the expression `self`, of type &TilingLayout where a
\* &GroupNode is expected: the compiler coerces it by a call of deref on it,
\* the very function running. Each call takes a new stack frame until the stack
\* overflows, which aborts the process; a build that makes the call in tail
\* position a jump spins in the first frame for ever instead.
Deref ==
    /\ op.name = "deref" /\ op.outcome = "Pending"
    /\ \/ /\ deref_frames < MaxFrames
          /\ deref_frames' = deref_frames + 1
          /\ op' = op
       \/ /\ deref_frames = MaxFrames
          /\ deref_frames' = deref_frames
          /\ op' = [op EXCEPT !.outcome = "StackOverflow"]
       \/ /\ deref_frames = 1
          /\ deref_frames' = deref_frames
          /\ op' = [op EXCEPT !.outcome = "Spin"]
    /\ UNCHANGED <<root, overflow_checks, failures, wm>>

\* ---------------------------------------------------------------- the steps of run

\* run(testing) is called.
X11Run ==
    /\ wm.pc = "idle"
    /\ \E testing \in BOOLEAN : wm' = [wm EXCEPT !.pc = "spawn", !.testing = testing]
    /\ UNCHANGED <<root, overflow_checks, failures, op, deref_frames>>

\* testing.then_some(testing::Xephyr::spawn()?): spawn is called whatever
\* `testing` is, and may fail.
X11Spawn ==
    /\ wm.pc = "spawn"
    /\ \E outcome \in {"Ok", "Io"} :
          LET r == try(outcome, "connect") IN
          wm' = [wm EXCEPT !.pc = r.pc, !.result = r.result,
                           !.failed = IF outcome = "Ok" THEN @ ELSE "spawn"]
    /\ UNCHANGED <<root, overflow_checks, failures, op, deref_frames>>

\* xcb::Connection::connect(None)?
X11Connect ==
    /\ wm.pc = "connect"
    /\ \E outcome \in {"Ok", "Conn"} :
          LET r == try(outcome, "screen") IN
          wm' = [wm EXCEPT !.pc = r.pc, !.result = r.result,
                           !.failed = IF outcome = "Ok" THEN @ ELSE "connect"]
    /\ UNCHANGED <<root, overflow_checks, failures, op, deref_frames>>

\* setup.roots().nth(screen_num as usize).unwrap(): a panic when the setup has
\* no screen of that number.
X11Screen ==
    /\ wm.pc = "screen"
    /\ \E found \in BOOLEAN :
          wm' = [wm EXCEPT !.pc = IF found THEN "register" ELSE "panicked"]
    /\ UNCHANGED <<root, overflow_checks, failures, op, deref_frames>>

\* The registration: the checked ChangeWindowAttributes request is sent and
\* its reply awaited.
X11Register ==
    /\ wm.pc = "register"
    /\ \E reply \in {"Ok", "Protocol"} :
          LET r == check_request(reply, wm.testing) IN
          wm' = [wm EXCEPT !.pc = r.pc, !.result = r.result,
                           !.sent = @ \o <<Request("ChangeWindowAttributes", RootWindow,
                                                    "SUBSTRUCTURE_NOTIFY|SUBSTRUCTURE_REDIRECT")>>,
                           !.registered = IF reply = "Ok" THEN "ok" ELSE "failed",
                           !.failed = IF reply = "Ok" THEN @ ELSE "register"]
    /\ UNCHANGED <<root, overflow_checks, failures, op, deref_frames>>

\* if testing { crate::launch_terminal() }
X11LaunchTerminal ==
    /\ wm.pc = "terminal"
    /\ wm' = [wm EXCEPT !.pc = "flush"]
    /\ UNCHANGED <<root, overflow_checks, failures, op, deref_frames>>

\* connection.flush()?
X11Flush ==
    /\ wm.pc = "flush"
    /\ \E outcome \in {"Ok", "Conn"} :
          LET r == try(outcome, "wait") IN
          wm' = [wm EXCEPT !.pc = r.pc, !.result = r.result,
                           !.iterations = @ + 1,
                           !.sent = IF outcome = "Ok" THEN @ \o wm.queue ELSE @,
                           !.queue = IF outcome = "Ok" THEN <<>> ELSE @,
                           !.failed = IF outcome = "Ok" THEN @ ELSE "flush"]
    /\ UNCHANGED <<root, overflow_checks, failures, op, deref_frames>>

\* connection.wait_for_event()?
X11Wait ==
    /\ wm.pc = "wait"
    /\ wm.events < MaxEvents
    /\ \/ \E event \in Events :
             wm' = [wm EXCEPT !.pc = try("Ok", "dispatch").pc, !.event = Some(event),
                              !.events = @ + 1]
       \/ LET r == try("Conn", "dispatch") IN
          wm' = [wm EXCEPT !.pc = r.pc, !.result = r.result, !.failed = "wait"]
    /\ UNCHANGED <<root, overflow_checks, failures, op, deref_frames>>

\* The match on the event, and the end of the iteration.
X11Dispatch ==
    /\ wm.pc = "dispatch"
    /\ wm' = [wm EXCEPT !.pc = loop_head, !.queue = @ \o dispatch(unwrap(wm.event))]
    /\ UNCHANGED <<root, overflow_checks, failures, op, deref_frames>>

\* Every operation, on every group of the tree.
Next ==
    \/ X11Run
    \/ X11Spawn
    \/ X11Connect
    \/ X11Screen
    \/ X11Register
    \/ X11LaunchTerminal
    \/ X11Flush
    \/ X11Wait
    \/ X11Dispatch
    \/ DerefCall
    \/ Deref
    \/ RotateBy(Paths(root), Rotations)
    \/ SetOrientation(Paths(root))
    \/ SetWidth(Paths(root), Sizes)
    \/ SetHeight(Paths(root), Sizes)
    \/ Remove(Paths(root))
    \/ PushWindow(Paths(root), MaxNodes)
    \/ InsertWindow(Paths(root), MaxNodes)
    \/ PushGroup(Paths(root), MaxNodes, Orientations)
    \/ InsertGroup(Paths(root), MaxNodes, Orientations)
    \/ Get(Paths(root))
    \/ GetMut(Paths(root))
    \/ Index(Paths(root))
    \/ First(Paths(root))
    \/ Last(Paths(root))
    \/ ApplyChanges(Paths(root), Handles(root))

Spec == Init /\ [][Next]_vars

\* The operations of a group other than apply_changes read and write that
\* group alone (a node holds no reference to its parent), so they are explored
\* on the root group, whose children are windows and groups.
RootOnly == {<<>>}

\* Neither the accessors nor the mutation log of a group read the orientation
\* of a child group, so the child groups made on the root are of two kinds (one
\* plain and vertical, one reversed and horizontal), or of one.
ChildOrientations == {"TopToBottom", "RightToLeft"}
ColumnOnly == {"TopToBottom"}

\* Rotations and orientation changes of a group with windows, and commits.
NextRotate ==
    \/ RotateBy(RootOnly, Rotations)
    \/ SetOrientation(RootOnly)
    \/ PushWindow(RootOnly, MaxSizedNodes)
    \/ ApplyChanges(RootOnly, {})

SpecRotate == Init /\ [][NextRotate]_vars

\* Structural edits, orientation changes and the logical accessors: the
\* operations the index transform depends on.
NextIndex ==
    \/ SetOrientation(RootOnly)
    \/ Remove(RootOnly)
    \/ PushWindow(RootOnly, MaxNodes)
    \/ InsertWindow(RootOnly, MaxNodes)
    \/ PushGroup(RootOnly, MaxNodes, ChildOrientations)
    \/ InsertGroup(RootOnly, MaxNodes, ChildOrientations)
    \/ Get(RootOnly)
    \/ GetMut(RootOnly)
    \/ Index(RootOnly)
    \/ First(RootOnly)
    \/ Last(RootOnly)

SpecIndex == Init /\ [][NextIndex]_vars

\* Structural edits and commits: the operations the mutation log depends on.
NextLog ==
    \/ Remove(RootOnly)
    \/ PushWindow(RootOnly, MaxNodes)
    \/ InsertWindow(RootOnly, MaxNodes)
    \/ PushGroup(RootOnly, MaxNodes, ColumnOnly)
    \/ InsertGroup(RootOnly, MaxNodes, ColumnOnly)
    \/ ApplyChanges(RootOnly, Handles(root))

SpecLog == Init /\ [][NextLog]_vars

\* Edits, commits and the setters of the pending fields.
QuarterTurns == {0 - 1, 1}
NewSizes == {1, MaxSize}
NextPending ==
    \/ PushWindow(RootOnly, MaxSizedNodes)
    \/ Remove(RootOnly)
    \/ ApplyChanges(RootOnly, {})
    \/ RotateBy(RootOnly, QuarterTurns)
    \/ SetOrientation(RootOnly)
    \/ SetWidth(RootOnly, NewSizes)
    \/ SetHeight(RootOnly, NewSizes)

SpecPending == Init /\ [][NextPending]_vars

\* Growth of the whole tree and commits of any group.
NextCommit ==
    \/ PushWindow(Paths(root), MaxNodes)
    \/ PushGroup(Paths(root), MaxNodes, Orientations)
    \/ ApplyChanges(Paths(root), Handles(root))

SpecCommit == Init /\ [][NextCommit]_vars

\* Edits, width changes and commits of a root group with a nested group.
NextNested ==
    \/ PushWindow(Paths(root), MaxSizedNodes)
    \/ PushGroup(RootOnly, MaxSizedNodes, ChildOrientations)
    \/ Remove(Paths(root))
    \/ SetWidth(Paths(root), NewSizes)
    \/ ApplyChanges(RootOnly, {})

SpecNested == Init /\ [][NextNested]_vars

\* Resizes of the root above a nested group that has no pending change of its
\* own size.
NextEnvelope ==
    \/ PushWindow(Paths(root), MaxSizedNodes)
    \/ PushGroup(RootOnly, MaxSizedNodes, ChildOrientations)
    \/ SetWidth(RootOnly, NewSizes)
    \/ SetHeight(RootOnly, NewSizes)
    \/ ApplyChanges(RootOnly, {})

SpecEnvelope == Init /\ [][NextEnvelope]_vars

\* Commits with a failing resize_window of a root whose orientation and width
\* change, above a nested group.
Narrower == {MaxSize - 1}
NextFailing ==
    \/ PushWindow(Paths(root), MaxNodes)
    \/ PushGroup(RootOnly, MaxNodes, ColumnOnly)
    \/ SetOrientation(RootOnly)
    \/ SetWidth(RootOnly, Narrower)
    \/ ApplyChanges(RootOnly, Handles(root))

SpecFailing == Init /\ [][NextFailing]_vars

\* Uses of the layout as a group, between edits of the root made through
\* Borrow / BorrowMut. A call of deref under way goes on running.
NextDeref ==
    \/ DerefCall
    \/ Deref
    \/ PushWindow(RootOnly, MaxNodes)
    \/ InsertWindow(RootOnly, MaxNodes)
    \/ Remove(RootOnly)

SpecDeref == Init /\ [][NextDeref]_vars

\* The X11 adapter: run, from its call to its return. It touches no layout.
NextX11 ==
    \/ X11Run
    \/ X11Spawn
    \/ X11Connect
    \/ X11Screen
    \/ X11Register
    \/ X11LaunchTerminal
    \/ X11Flush
    \/ X11Wait
    \/ X11Dispatch

SpecX11 == Init /\ [][NextX11]_vars

\* ---------------------------------------------------------------- claims

\* The effective orientation of a group, and the storage slot of a logical
\* index, as the specification states them.
Effective(g) == IF g.new_orientation # <<>> THEN g.new_orientation[1] ELSE g.orientation
IsReversed(o) == o = "RightToLeft" \/ o = "BottomToTop"
LogicalSlot(g, i) == IF IsReversed(Effective(g)) THEN Len(g.nodes) - 1 - i ELSE i

\* C1: in every state, for every group, `additions` is strictly ascending,
\* every entry is below len(nodes), and its entries are exactly the storage
\* indices of the children inserted since the group last took its log that are
\* still present.
AdditionsExact(g) ==
    /\ \A k \in 1..(Len(g.additions) - 1) : g.additions[k] < g.additions[k + 1]
    /\ \A k \in 1..Len(g.additions) : g.additions[k] >= 0 /\ g.additions[k] < Len(g.nodes)
    /\ {g.additions[k] : k \in 1..Len(g.additions)}
          = {i \in 0..(Len(g.nodes) - 1) : g.nodes[i + 1].uncommitted}

C1_AdditionsExact == \A path \in Paths(root) : AdditionsExact(GroupAt(root, path))

\* C1's case: a pending addition has just been removed from a group that still
\* holds another pending addition after a committed child.
C1_Witness ==
    /\ op.name = "remove"
    /\ unwrap(op.ret).uncommitted
    /\ Len(root.nodes) = 2
    /\ ~root.nodes[1].uncommitted
    /\ root.nodes[2].uncommitted

\* C2: get, get_mut and direct indexing with a valid logical index return the
\* child in storage slot i under a plain effective orientation and in slot
\* n-1-i under a reversed one; first is logical index 0, last is n-1.
C2_LogicalIndex ==
    LET g == GroupAt(root, op.path)
        n == Len(g.nodes)
    IN  /\ (op.name \in {"get", "get_mut", "index"} /\ op.index < n)
            => op.outcome = "Ok" /\ op.ret = <<g.nodes[LogicalSlot(g, op.index) + 1]>>
        /\ (op.name = "first" /\ n > 0)
            => op.outcome = "Ok" /\ op.ret = <<g.nodes[LogicalSlot(g, 0) + 1]>>
        /\ (op.name = "last" /\ n > 0)
            => op.outcome = "Ok" /\ op.ret = <<g.nodes[LogicalSlot(g, n - 1) + 1]>>

\* C2's case: get(0) on a group of three children whose pending orientation is
\* reversed while its committed one is not.
C2_Witness ==
    /\ op.name = "get"
    /\ op.index = 0
    /\ Len(root.nodes) = 3
    /\ root.orientation = "LeftToRight"
    /\ root.new_orientation = <<"BottomToTop">>
    /\ op.ret = <<root.nodes[3]>>

\* C3: remove(i) with a valid index detaches and returns the child at logical
\* index i (the child get(i) returned just before), and the other children
\* keep their relative order.
C3_RemoveLogical ==
    [][op'.name = "remove" =>
          LET g == GroupAt(root, op'.path)
              slot == LogicalSlot(g, op'.index)
          IN  /\ op'.ret = <<g.nodes[slot + 1]>>
              /\ GroupAt(root', op'.path).nodes
                    = SubSeq(g.nodes, 1, slot) \o SubSeq(g.nodes, slot + 2, Len(g.nodes))]_vars

\* C4: after insert_window(i, h) or insert_group(i, o) the child at logical
\* index i is the new window of h, or the new empty group of o, of size (0, 0),
\* and its storage index is among the additions.
C4_InsertLogical ==
    LET g == GroupAt(root, op.path)
        slot == LogicalSlot(g, op.index)
        node == g.nodes[slot + 1]
    IN  /\ op.name = "insert_window" =>
              /\ node.kind = "Window" /\ node.window = op.window
              /\ node.width = 0 /\ node.height = 0
              /\ \E k \in 1..Len(g.additions) : g.additions[k] = slot
        /\ op.name = "insert_group" =>
              /\ node.kind = "Group" /\ node.orientation = op.orient /\ node.nodes = <<>>
              /\ node.width = 0 /\ node.height = 0
              /\ \E k \in 1..Len(g.additions) : g.additions[k] = slot

\* C5: immediately after push_window(h), last() returns the window of h.
C5_PushIsLast ==
    op.name = "push_window" =>
        LET r == last(GroupAt(root, op.path), overflow_checks)
        IN  /\ r.outcome = "Ok"
            /\ r.ret # None
            /\ unwrap(r.ret).kind = "Window"
            /\ unwrap(r.ret).window = op.window

\* C6: get and get_mut with an index at or beyond len return None, without
\* failing.
C6_OutOfRangeIsNone ==
    (op.name \in {"get", "get_mut"} /\ op.index >= Len(GroupAt(root, op.path).nodes))
        => op.outcome = "Ok" /\ op.ret = None

\* The clockwise cycle of the orientations.
Cycle == <<"LeftToRight", "TopToBottom", "RightToLeft", "BottomToTop">>
CyclePosition(o) == CHOOSE k \in 0..3 : Cycle[k + 1] = o

\* C7: rotate_by(n) from an orientation at position k of the cycle completes
\* and sets the pending orientation to the one at position (k + n) mod 4.
C7_RotateByCycle ==
    [][op'.name = "rotate_by" =>
          LET g == GroupAt(root, op'.path)
              k == CyclePosition(Effective(g))
          IN  /\ op'.outcome = "Ok"
              /\ GroupAt(root', op'.path).new_orientation
                    = <<Cycle[((k + op'.rotations) % 4) + 1]>>]_vars

\* Four calls of rotate_by(1) in a row on g: the group afterwards, if all
\* complete.
FourQuarterTurns(g) ==
    LET r1 == rotate_by(g, 1)
        r2 == rotate_by(r1.group, 1)
        r3 == rotate_by(r2.group, 1)
        r4 == rotate_by(r3.group, 1)
    IN  [outcome |-> IF {r1.outcome, r2.outcome, r3.outcome, r4.outcome} = {"Ok"}
                     THEN "Ok" ELSE "Panic",
         group |-> r4.group]

\* C8: rotate_by(4) leaves the effective orientation as it was, and so do four
\* calls of rotate_by(1) in a row.
C8_FullTurn ==
    [][/\ (op'.name = "rotate_by" /\ op'.rotations = 4) =>
              /\ op'.outcome = "Ok"
              /\ Effective(GroupAt(root', op'.path)) = Effective(GroupAt(root, op'.path))
       /\ \A path \in Paths(root) :
              /\ FourQuarterTurns(GroupAt(root, path)).outcome = "Ok"
              /\ Effective(FourQuarterTurns(GroupAt(root, path)).group)
                    = Effective(GroupAt(root, path))]_vars

\* C9: rotate_by, set_orientation, set_width and set_height change nothing of
\* the tree but the pending field of the group they are called on (which
\* set_orientation, set_width and set_height set to their argument), and call
\* resize_window for no window.
C9_SettersOnlyPending ==
    [][op'.name \in {"rotate_by", "set_orientation", "set_width", "set_height"} =>
          LET g == GroupAt(root, op'.path)
              h == GroupAt(root', op'.path)
          IN  /\ root' = ReplaceAt(root, op'.path, h)
              /\ op'.calls = <<>>
              /\ op'.name \in {"rotate_by", "set_orientation"} =>
                    h = [g EXCEPT !.new_orientation = h.new_orientation]
              /\ op'.name = "set_orientation" => h.new_orientation = <<op'.orient>>
              /\ op'.name = "set_width" => h = [g EXCEPT !.new_width = <<op'.size>>]
              /\ op'.name = "set_height" => h = [g EXCEPT !.new_height = <<op'.size>>]]_vars

\* C9's case: set_width has just been called on a group with a sized child, a
\* pending addition and a pending removal.
C9_Witness ==
    /\ op.name = "set_width"
    /\ root.new_width = <<op.size>>
    /\ op.size # root.width
    /\ root.additions # <<>>
    /\ root.total_removed_primary > 0
    /\ \E k \in 1..Len(root.nodes) : root.nodes[k].width > 0 /\ root.nodes[k].height > 0

\* A group, and every group below it, has no pending change.
RECURSIVE NothingPending(_)
NothingPending(g) ==
    /\ g.additions = <<>>
    /\ g.total_removed_primary = 0
    /\ g.new_orientation = <<>> /\ g.new_width = <<>> /\ g.new_height = <<>>
    /\ \A k \in 1..Len(g.nodes) : g.nodes[k].kind = "Group" => NothingPending(g.nodes[k])

\* C10: apply_changes on a group with nothing pending in it or below it leaves
\* the whole tree as it was, calls resize_window for no window and succeeds.
C10_CommitNoChange ==
    [][(op'.name = "apply_changes" /\ NothingPending(GroupAt(root, op'.path))) =>
          /\ root' = root
          /\ op'.calls = <<>>
          /\ op'.outcome = "Ok"]_vars

\* C10's case: apply_changes has just been called on a root with nothing
\* pending, holding a sized window and a sized group with a sized window.
C10_Witness ==
    /\ op.name = "apply_changes"
    /\ op.path = <<>>
    /\ ~op.dirty
    /\ \E k \in 1..Len(root.nodes) :
          root.nodes[k].kind = "Window" /\ root.nodes[k].width > 0 /\ root.nodes[k].height > 0
    /\ \E k \in 1..Len(root.nodes) :
          /\ root.nodes[k].kind = "Group"
          /\ root.nodes[k].width > 0
          /\ \E j \in 1..Len(root.nodes[k].nodes) : root.nodes[k].nodes[j].height > 0

\* The extent of a node or group along an axis and across it, and the axis of
\* an orientation, as the specification states them.
Along(n, a) == IF a = "Horizontal" THEN n.width ELSE n.height
Across(n, a) == IF a = "Horizontal" THEN n.height ELSE n.width
AxisOf(o) == IF o = "LeftToRight" \/ o = "RightToLeft" THEN "Horizontal" ELSE "Vertical"

\* The sum of f[1..n].
RECURSIVE SumTo(_, _)
SumTo(f, n) == IF n = 0 THEN 0 ELSE SumTo(f, n - 1) + f[n]

\* The storage slots (counted from 1) of the pending additions of g.
AddedSlots(g) == {g.additions[k] + 1 : k \in 1..Len(g.additions)}

\* A group has pending changes.
HasPending(g) ==
    \/ g.additions # <<>>
    \/ g.total_removed_primary # 0
    \/ g.new_orientation # <<>> \/ g.new_width # <<>> \/ g.new_height # <<>>

\* The primary extent the proportional rescale gives the child at slot j when
\* the group g is committed into h: P / (k + m) to an addition and
\* p_j * (P - m * (P / (k + m))) / S to an old child (no extent, -1, when S = 0).
RescaledPrimary(g, h, j) ==
    LET P == Along(h, AxisOf(h.orientation))
        n == Len(g.nodes)
        m == Cardinality(AddedSlots(g))
        p == [i \in 1..n |-> IF i \in AddedSlots(g) THEN 0
                             ELSE Along(g.nodes[i], AxisOf(g.orientation))]
        S == SumTo(p, n)
        share == P \div n
    IN  IF j \in AddedSlots(g) THEN share
        ELSE IF S = 0 THEN 0 - 1
        ELSE (p[j] * (P - m * share)) \div S

\* C11: a successful apply_changes on a group with pending changes gives every
\* pending addition the primary extent P / (k + m) and every old child i the
\* primary extent p_i * (P - m * (P / (k + m))) / S, where P is the group's
\* primary extent after the commit, p_1..p_k the primary extents of its k old
\* children before it, S their sum and m the number of pending additions.
C11_ProportionalRescale ==
    [][(op'.name = "apply_changes" /\ op'.outcome = "Ok"
            /\ HasPending(GroupAt(root, op'.path))) =>
          LET g == GroupAt(root, op'.path)
              h == GroupAt(root', op'.path)
          IN  \A j \in 1..Len(h.nodes) :
                 Along(h.nodes[j], AxisOf(h.orientation)) = RescaledPrimary(g, h, j)]_vars

\* The groups of the tree at or below the group at `path`.
PathsBelow(path) == {q \in Paths(root) : Len(q) >= Len(path) /\ SubSeq(q, 1, Len(path)) = path}

\* The sum of the primary extents of the direct children of g.
ChildrenPrimary(g) ==
    SumTo([i \in 1..Len(g.nodes) |-> Along(g.nodes[i], AxisOf(g.orientation))], Len(g.nodes))

\* C12: after a successful apply_changes, in every group it committed the
\* primary extents of the direct children sum to at most the group's primary
\* extent.
C12_ChildrenFit ==
    (op.name = "apply_changes" /\ op.outcome = "Ok") =>
        \A q \in PathsBelow(op.path) :
            ChildrenPrimary(GroupAt(root, q)) <= Along(GroupAt(root, q), AxisOf(GroupAt(root, q).orientation))

\* C13: after a successful apply_changes on the root, every child of every
\* group of the tree has the secondary extent of that group.
C13_SecondaryExact ==
    (op.name = "apply_changes" /\ op.path = <<>> /\ op.outcome = "Ok") =>
        \A q \in Paths(root) :
            LET g == GroupAt(root, q) IN
            \A j \in 1..Len(g.nodes) :
                Across(g.nodes[j], AxisOf(g.orientation)) = Across(g, AxisOf(g.orientation))

\* The windows of the tree below g, each with its primary and secondary extent
\* in the group that holds it: <<window, primary, secondary>>.
RECURSIVE Placed(_)
Placed(g) ==
    UNION {IF g.nodes[j].kind = "Window"
           THEN {<<g.nodes[j].window,
                   Along(g.nodes[j], AxisOf(g.orientation)),
                   Across(g.nodes[j], AxisOf(g.orientation))>>}
           ELSE Placed(g.nodes[j]) : j \in 1..Len(g.nodes)}

\* C14: when resize_window fails during apply_changes, apply_changes returns
\* the failure, the failing call is the last call of resize_window, every
\* window resized before it keeps the extents it was resized to, and the group
\* keeps its newly committed orientation, width and height.
C14_FailFast ==
    [][(op'.name = "apply_changes"
            /\ \E k \in 1..Len(op'.calls) : op'.calls[k][1] = op'.fail) =>
          LET g == GroupAt(root, op'.path)
              h == GroupAt(root', op'.path)
              n == Len(op'.calls)
          IN  /\ op'.outcome = "Err"
              /\ \A k \in 1..n : op'.calls[k][1] = op'.fail => k = n
              /\ \A k \in 1..(n - 1) : op'.calls[k] \in Placed(h)
              /\ h.orientation = IF g.new_orientation # <<>> THEN g.new_orientation[1] ELSE g.orientation
              /\ h.width = IF g.new_width # <<>> THEN g.new_width[1] ELSE g.width
              /\ h.height = IF g.new_height # <<>> THEN g.new_height[1] ELSE g.height]_vars

\* C14's case: resize_window has just failed on the second window of a commit
\* that narrowed the root and resized a first window; a third node was not
\* reached.
C14_Witness ==
    /\ op.name = "apply_changes"
    /\ op.outcome = "Err"
    /\ Len(op.calls) = 2
    /\ op.calls[2][1] = op.fail
    /\ op.calls[1][2] > 0
    /\ root.width = MaxSize - 1
    /\ Len(root.nodes) = 3
    /\ root.nodes[3].width = 0 /\ root.nodes[3].height = 0

\* C15: apply_changes on a group with pending changes and no children
\* completes successfully and calls resize_window for no window.
C15_EmptyGroupCommit ==
    [][(op'.name = "apply_changes"
            /\ HasPending(GroupAt(root, op'.path))
            /\ GroupAt(root, op'.path).nodes = <<>>) =>
          /\ op'.outcome = "Ok"
          /\ op'.calls = <<>>
          /\ GroupAt(root', op'.path).nodes = <<>>]_vars

\* C16: a use of the TilingLayout as a group, unless still under way, has come
\* to an end and yielded the root group: it neither overflows the stack nor
\* enters a loop without exit.
C16_DerefYieldsRoot ==
    op.name = "deref" =>
        \/ op.outcome = "Pending"
        \/ op.outcome = "Ok" /\ op.ret = <<root>> /\ deref_frames = 0

\* ---------------------------------------------------------------- C17

\* The requests the connection has been given so far, written or not.
Requested == wm.sent \o wm.queue
LoopRequests == {"MapWindow", "ConfigureWindow", "CirculateWindow"}

\* C17: when the checked ChangeWindowAttributes request on the root window
\* fails, run has returned an error (it has not panicked), no iteration of the
\* event loop has begun, no event has been read, and no MapWindow,
\* ConfigureWindow or CirculateWindow request has been given to the connection.
C17_RegistrationFailure ==
    wm.registered = "failed" =>
        /\ wm.pc = "returned"
        /\ wm.result # None
        /\ unwrap(wm.result) = "Protocol"
        /\ wm.iterations = 0
        /\ wm.events = 0
        /\ \A k \in 1..Len(Requested) : Requested[k].req \notin LoopRequests

C17_Witness ==
    /\ wm.registered = "failed"
    /\ wm.pc = "returned"
    /\ wm.testing
    /\ \E k \in 1..Len(wm.sent) : wm.sent[k].req = "ChangeWindowAttributes"

\* ---------------------------------------------------------------- C18

\* C18: an event is read only when every request queued so far has been
\* flushed, so the requests of event k are written before event k+1 is read;
\* and a failure of flush or of wait_for_event ends run with that error, no
\* further event being read or dispatched.
C18_FlushBeforeNextEvent ==
    [][/\ (wm.pc = "wait" /\ wm'.pc = "dispatch") => wm.queue = <<>>
       /\ wm'.events > wm.events => (wm.pc = "wait" /\ wm.queue = <<>>)
       /\ (wm'.failed \in {"flush", "wait"} /\ wm.failed = "") =>
              /\ wm'.pc = "returned"
              /\ wm'.result = Some("Conn")
              /\ wm'.events = wm.events
              /\ wm'.queue = wm.queue
       /\ wm.failed \in {"flush", "wait"} => wm' = wm]_vars

C18_Witness ==
    /\ wm.events = 2
    /\ wm.pc = "dispatch"
    /\ wm.queue = <<>>
    /\ \E k \in 1..Len(wm.sent) : wm.sent[k].req \in LoopRequests

\* ---------------------------------------------------------------- C19

\* The step of the loop that dispatches the event read.
Dispatched == wm.pc = "dispatch" /\ wm'.pc # "dispatch"

\* The requests the dispatch of one event has queued.
QueuedBy == SubSeq(wm'.queue, Len(wm.queue) + 1, Len(wm'.queue))

\* C19: the dispatch of an event leaves the requests already queued and
\* written as they are and queues: for a MapRequest of W one MapWindow(W); for
\* a ConfigureRequest of W one ConfigureWindow(W) with exactly the values of
\* the attributes the client asked for; for a CirculateRequest of W one
\* CirculateWindow(W), RaiseLowest for OnTop and LowerHighest for OnBottom; for
\* an UnmapNotify and every other event nothing.
C19_DispatchExact ==
    [][Dispatched =>
          LET event == unwrap(wm.event) IN
          /\ wm'.sent = wm.sent
          /\ Len(wm'.queue) >= Len(wm.queue)
          /\ SubSeq(wm'.queue, 1, Len(wm.queue)) = wm.queue
          /\ event.type = "MapRequest" =>
                 QueuedBy = <<[req |-> "MapWindow", window |-> event.window, arg |-> <<>>]>>
          /\ event.type = "ConfigureRequest" =>
                 /\ Len(QueuedBy) = 1
                 /\ QueuedBy[1].req = "ConfigureWindow"
                 /\ QueuedBy[1].window = event.window
                 /\ Len(QueuedBy[1].arg) = Cardinality(event.mask)
                 /\ {QueuedBy[1].arg[k] : k \in 1..Len(QueuedBy[1].arg)}
                        = {<<f, event.values[f]>> : f \in event.mask}
          /\ (event.type = "CirculateRequest" /\ event.place = "OnTop") =>
                 QueuedBy = <<[req |-> "CirculateWindow", window |-> event.window, arg |-> "RaiseLowest"]>>
          /\ (event.type = "CirculateRequest" /\ event.place = "OnBottom") =>
                 QueuedBy = <<[req |-> "CirculateWindow", window |-> event.window, arg |-> "LowerHighest"]>>
          /\ event.type \notin {"MapRequest", "ConfigureRequest", "CirculateRequest"} =>
                 QueuedBy = <<>>]_vars

C19_Witness ==
    /\ wm.pc = "flush"
    /\ wm.events = 2
    /\ Len(wm.queue) = 1
    /\ wm.queue[1].req = "CirculateWindow"
    /\ wm.queue[1].arg = "LowerHighest"
    /\ \E k \in 1..Len(wm.sent) : wm.sent[k].req = "ConfigureWindow" /\ Len(wm.sent[k].arg) = 2

\* ---------------------------------------------------------------- C20

\* C20: when apply_changes on the root has returned Ok, no group of the tree,
\* the root or a nested one, has pending changes: its additions are empty, its
\* total_removed_primary is 0 and its new_orientation, new_width and
\* new_height are None.
C20_NothingPendingAfterCommit ==
    (op.name = "apply_changes" /\ op.path = <<>> /\ op.outcome = "Ok") =>
        \A q \in Paths(root) :
            LET g == GroupAt(root, q) IN
            /\ g.additions = <<>>
            /\ g.total_removed_primary = 0
            /\ g.new_orientation = None
            /\ g.new_width = None
            /\ g.new_height = None

\* A commit of the root that returned Ok and resized a window of a nested
\* group: the nested group had pending changes when it was reached.
C20_Witness ==
    /\ op.name = "apply_changes" /\ op.path = <<>> /\ op.outcome = "Ok"
    /\ \E q \in Paths(root) \ {<<>>} :
          LET g == GroupAt(root, q) IN
          \E k \in 1..Len(g.nodes), c \in 1..Len(op.calls) :
              /\ g.nodes[k].kind = "Window"
              /\ op.calls[c][1] = g.nodes[k].window

\* ---------------------------------------------------------------- C21

\* The sum of the primary extents, along the committed orientation's axis, of
\* the direct children of g that are not pending additions.
CommittedPrimary(g) ==
    SumTo([i \in 1..Len(g.nodes) |->
              IF i \in AddedSlots(g) THEN 0 ELSE Along(g.nodes[i], AxisOf(g.orientation))],
          Len(g.nodes))

\* C21: in every state reached by edits, resizes, rotations and commits,
\* successful or failed, every group has total_removed_primary <=
\* total_node_primary, and total_node_primary - total_removed_primary is the
\* sum of the primary extents, along the committed orientation's axis, of its
\* children that are not pending additions; and after a successful commit the
\* total_node_primary of every group committed is the sum of the primary
\* extents of all its children.
C21_Baseline ==
    Running =>
        /\ \A q \in Paths(root) :
              LET g == GroupAt(root, q) IN
              /\ g.total_removed_primary <= g.total_node_primary
              /\ g.total_node_primary - g.total_removed_primary = CommittedPrimary(g)
        /\ (op.name = "apply_changes" /\ op.outcome = "Ok") =>
              \A q \in PathsBelow(op.path) :
                  GroupAt(root, q).total_node_primary = ChildrenPrimary(GroupAt(root, q))

\* ---------------------------------------------------------------- C22

\* The window leaves of the tree below g, each with its stored width and
\* height: <<window, width, height>>.
RECURSIVE Leaves(_)
Leaves(g) ==
    UNION {IF g.nodes[j].kind = "Window"
           THEN {<<g.nodes[j].window, g.nodes[j].width, g.nodes[j].height>>}
           ELSE Leaves(g.nodes[j]) : j \in 1..Len(g.nodes)}

\* The calls of resize_window of the last commit made with the window w.
CallsOf(calls, w) == {k \in 1..Len(calls) : calls[k][1] = w}

\* C22: in one successful commit resize_window is called at most once with
\* each window, exactly once with every window whose stored width or height
\* the commit changes, and each call's (primary, secondary) are the extents
\* stored in the window after the commit, along and across the committed axis
\* of the group that holds it.
C22_CallbackOncePerLeaf ==
    [][(op'.name = "apply_changes" /\ op'.outcome = "Ok") =>
          LET g == GroupAt(root, op'.path)
              h == GroupAt(root', op'.path)
          IN  /\ \A t \in Leaves(h) : Cardinality(CallsOf(op'.calls, t[1])) <= 1
              /\ \A t \in Leaves(h) \ Leaves(g) : Cardinality(CallsOf(op'.calls, t[1])) = 1
              /\ \A k \in 1..Len(op'.calls) : op'.calls[k] \in Placed(h)]_vars

\* A successful commit of the root that resized the window of a nested group
\* to extents that are not zero: one call, with that window.
C22_Witness ==
    /\ op.name = "apply_changes" /\ op.path = <<>> /\ op.outcome = "Ok"
    /\ Len(op.calls) = 1
    /\ op.calls[1][2] > 0 /\ op.calls[1][3] > 0
    /\ \E j \in 1..Len(root.nodes) :
          /\ root.nodes[j].kind = "Group"
          /\ \E i \in 1..Len(root.nodes[j].nodes) :
                /\ root.nodes[j].nodes[i].kind = "Window"
                /\ CallsOf(op.calls, root.nodes[j].nodes[i].window) = {1}

\* ---------------------------------------------------------------- C23

\* The groups the failed commit `o` was under way in when resize_window
\* failed: those at or below the group committed that hold the failing window.
FailedIn(o) == {q \in PathsBelow(o.path) : o.fail \in Handles(GroupAt(root, q))}

\* The windows that are direct children of g and that the commit `o` did not
\* call resize_window with.
NotReached(g, o) ==
    {g.nodes[j].window : j \in {i \in 1..Len(g.nodes) : g.nodes[i].kind = "Window"}}
        \ {o.calls[k][1] : k \in 1..Len(o.calls)}

\* C23: after apply_changes has failed in a group on a failure of
\* resize_window, the group's additions, total_removed_primary,
\* new_orientation, new_width and new_height are empty, and an apply_changes
\* that follows at once with a resize_window that never fails calls
\* resize_window with none of the group's windows the failed commit had not
\* reached.
C23_LogDroppedNotRetried ==
    [][(op.name = "apply_changes" /\ op.outcome = "Err") =>
          \A q \in FailedIn(op) :
              LET g == GroupAt(root, q) IN
              /\ g.additions = <<>>
              /\ g.total_removed_primary = 0
              /\ g.new_orientation = None /\ g.new_width = None /\ g.new_height = None
              /\ (op'.name = "apply_changes" /\ op'.fail = 0) =>
                     \A w \in NotReached(g, op) : CallsOf(op'.calls, w) = {}]_vars

\* A window of the root that no commit has given an extent, after the one
\* failed commit and a successful commit of the root that followed: the
\* failed commit did not reach it and the later one did not resize it.
C23_Witness ==
    /\ failures = 1
    /\ op.name = "apply_changes" /\ op.path = <<>> /\ op.outcome = "Ok" /\ op.fail = 0
    /\ root.additions = <<>>
    /\ \E j \in 1..Len(root.nodes) :
          /\ root.nodes[j].kind = "Window"
          /\ root.nodes[j].width = 0 /\ root.nodes[j].height = 0
          /\ CallsOf(op.calls, root.nodes[j].window) = {}

\* ---------------------------------------------------------------- C24

\* The commit of g rescales a child: g has pending changes and a child that is
\* not a pending addition.
Rescales(g) == HasPending(g) /\ (1..Len(g.nodes)) \ AddedSlots(g) # {}

\* C24: whenever apply_changes is called on a group whose commit rescales at
\* least one child that is not a pending addition, the denominator of the
\* rescale, total_node_primary - total_removed_primary, is greater than 0.
C24_DenominatorPositive ==
    [][(op'.name = "apply_changes" /\ Rescales(GroupAt(root, op'.path))) =>
          GroupAt(root, op'.path).total_node_primary
              - GroupAt(root, op'.path).total_removed_primary > 0]_vars

====
